---- MODULE Spec2Model ----
(***************************************************************************)
(* vlpstr.h: variable-length-prefixed strings.                             *)
(*                                                                         *)
(* A size_t is modelled at its full width of 64 bits, as the tuple of its  *)
(* eight bytes in little-endian order (byte 1 is the least significant),   *)
(* so that sums wrap modulo 2^64 the way the C arithmetic does.  A buffer  *)
(* is modelled as the bytes it holds at the addresses of the window Addr   *)
(* (offsets from the start of the vlpstr struct): every low offset, and    *)
(* the offsets around the end of every long string.                        *)
(***************************************************************************)
EXTENDS Integers, Sequences

VARIABLES
    mem,    \* mem[a]: the byte at offset a of the buffer
    src,    \* the C string last imported into the buffer, or NoSrc
    arg,    \* the length a caller passes to vlpstr_rsize or encodes by hand
    ret,    \* the last call and the value it returned
    nimp    \* number of vlpstr_import calls made

vars == <<mem, src, arg, ret, nimp>>

(***************************************************************************)
(* Bounds of the model.                                                    *)
(***************************************************************************)
\* Every source length 0..MaxSmallLen is imported, besides the lengths of EdgeLens.
MaxSmallLen == 2
\* vlpstr_rsize is called with every length 0..MaxDenseLen.
MaxDenseLen == 130
\* Number of import calls in one behaviour.
MaxImports == 2

(***************************************************************************)
(* uint8_t and size_t arithmetic.                                          *)
(***************************************************************************)
Byte == 0..255

U64 == [1..8 -> Byte]

\* A small constant (below 2^31) converted to size_t.
ToSize(n) ==
    <<n % 256, (n \div 256) % 256, (n \div 65536) % 256, n \div 16777216, 0, 0, 0, 0>>

RECURSIVE AddFrom(_, _, _, _)
\* Bytes i..8 of a + b, c being the carry into byte i; the carry out of
\* byte 8 is dropped.
AddFrom(a, b, i, c) ==
    IF i > 8 THEN <<>>
    ELSE LET s == a[i] + b[i] + c
         IN  <<s % 256>> \o AddFrom(a, b, i + 1, s \div 256)

\* a + b in size_t arithmetic (modulo 2^64).
Add(a, b) == AddFrom(a, b, 1, 0)

RECURSIVE SubFrom(_, _, _, _)
SubFrom(a, b, i, c) ==
    IF i > 8 THEN <<>>
    ELSE LET d == a[i] - b[i] - c
         IN  <<(d + 256) % 256>> \o SubFrom(a, b, i + 1, IF d < 0 THEN 1 ELSE 0)

\* a - b in size_t arithmetic (modulo 2^64).
Sub(a, b) == SubFrom(a, b, 1, 0)

RECURSIVE LtFrom(_, _, _)
LtFrom(a, b, i) ==
    IF i = 0 THEN FALSE
    ELSE IF a[i] # b[i] THEN a[i] < b[i]
    ELSE LtFrom(a, b, i - 1)

\* a < b on size_t.
Lt(a, b) == LtFrom(a, b, 8)

\* x >>= 8 on size_t.
Shr8(a) == Tail(a) \o <<0>>

\* Conversion of a size_t to uint8_t keeps the low byte.
ToByte(a) == a[1]

RECURSIVE BitOr(_, _)
BitOr(x, y) ==
    IF x = 0 THEN y
    ELSE IF y = 0 THEN x
    ELSE (IF x % 2 = 1 \/ y % 2 = 1 THEN 1 ELSE 0) + 2 * BitOr(x \div 2, y \div 2)

RECURSIVE BitAnd(_, _)
BitAnd(x, y) ==
    IF x = 0 \/ y = 0 THEN 0
    ELSE (IF x % 2 = 1 /\ y % 2 = 1 THEN 1 ELSE 0) + 2 * BitAnd(x \div 2, y \div 2)

RECURSIVE Clz8(_, _)
\* Leading zero bits of the byte x, seen as `width` bits.
Clz8(x, width) == IF x = 0 THEN width ELSE Clz8(x \div 2, width - 1)

RECURSIVE ClzFrom(_, _)
ClzFrom(a, i) ==
    IF a[i] # 0 THEN Clz8(a[i], 8) ELSE 8 + ClzFrom(a, i - 1)

\* __builtin_clzll(a); undefined for a = 0, and the code calls it only with
\* a >= 128.
clzll(a) == ClzFrom(a, 8)

NrLenBytesBroken(len) == (64 - clzll(len)) \div 8

\* (64 - __builtin_clzll(len) + 7) / 8
NrLenBytes(len) == (64 - clzll(len) + 7) \div 8

(***************************************************************************)
(* vlpstr_rsize                                                            *)
(***************************************************************************)
vlpstr_rsize(len) ==
    IF Lt(len, ToSize(128))
    THEN Add(len, ToSize(2))
    ELSE Add(Add(len, ToSize(NrLenBytes(len))), ToSize(2))

(***************************************************************************)
(* Buffers and C strings.                                                  *)
(***************************************************************************)
\* 256^k as a size_t.
Pow256(k) == [i \in 1..8 |-> IF i = k + 1 THEN 1 ELSE 0]

SmallLens == {ToSize(n) : n \in 0..MaxSmallLen}

\* Lengths on both sides of each change of prefix size, and one length for
\* every number of length bytes up to 8.
EdgeLens ==
    {ToSize(127), ToSize(128), ToSize(255), ToSize(256), ToSize(65535),
     ToSize(65536)} \cup {Pow256(k) : k \in 3..7}

\* The offsets of the buffer the model keeps: the first ones, and for every
\* long string the ones from its last bytes to past its terminator.
Addr ==
    {ToSize(n) : n \in 0..(15 + MaxSmallLen)}
        \cup {Add(Sub(L, ToSize(1)), ToSize(d)) : L \in EdgeLens, d \in 0..13}

\* A C string: len nonzero bytes, then the zero byte.
Sources == {[len |-> L, seed |-> 7] : L \in SmallLens \cup EdgeLens}

NoSrc == [len |-> ToSize(0), seed |-> 255]

\* zs[i], for i up to the terminator.
ZsAt(zs, i) ==
    IF i = zs.len THEN 0 ELSE ((i[1] + 3 * i[2] + zs.seed) % 255) + 1

\* strlen(zs): the index of the first zero byte of zs.
strlen(zs) == zs.len

\* offsetof(vlpstr, flags)
FlagsAddr == ToSize(0)

\* &vlps->data[i]: data follows the one-byte flags field.
DataAddr(i) == ToSize(1 + i)

\* memcpy that leaves out the last byte.
MemcpyShort(m, dst, zs, n) ==
    LET end == Add(dst, Sub(n, ToSize(1))) IN
    [a \in Addr |->
        IF ~Lt(a, dst) /\ Lt(a, end) THEN ZsAt(zs, Sub(a, dst)) ELSE m[a]]

\* memcpy that copies one byte too many.
MemcpyLong(m, dst, zs, n) ==
    LET end == Add(dst, Add(n, ToSize(1))) IN
    [a \in Addr |->
        IF ~Lt(a, dst) /\ Lt(a, end) THEN ZsAt(zs, Sub(a, dst)) ELSE m[a]]

\* memcpy(dst, zs, n) into the buffer m: the n bytes from dst on.
Memcpy(m, dst, zs, n) ==
    LET end == Add(dst, n) IN
    [a \in Addr |->
        IF ~Lt(a, dst) /\ Lt(a, end) THEN ZsAt(zs, Sub(a, dst)) ELSE m[a]]

(***************************************************************************)
(* vlpstr_import                                                           *)
(***************************************************************************)
RECURSIVE StoreLenBytesNoShift(_, _, _, _)
\* The loop without len_tmp >>= 8.
StoreLenBytesNoShift(m, len_tmp, i, nr_len_bytes) ==
    IF i < nr_len_bytes
    THEN StoreLenBytesNoShift([m EXCEPT ![DataAddr(i)] = ToByte(len_tmp)],
                              len_tmp, i + 1, nr_len_bytes)
    ELSE m

RECURSIVE StoreLenBytesSparse(_, _, _, _)
\* The loop storing only the nonzero length bytes.
StoreLenBytesSparse(m, len_tmp, i, nr_len_bytes) ==
    IF i < nr_len_bytes
    THEN StoreLenBytesSparse(
             IF ToByte(len_tmp) = 0 THEN m
             ELSE [m EXCEPT ![DataAddr(i)] = ToByte(len_tmp)],
             Shr8(len_tmp), i + 1, nr_len_bytes)
    ELSE m

RECURSIVE StoreLenBytes(_, _, _, _)
\* for (i = 0; i < nr_len_bytes; ++i) { data[i] = len_tmp; len_tmp >>= 8; }
StoreLenBytes(m, len_tmp, i, nr_len_bytes) ==
    IF i < nr_len_bytes
    THEN StoreLenBytes([m EXCEPT ![DataAddr(i)] = ToByte(len_tmp)],
                       Shr8(len_tmp), i + 1, nr_len_bytes)
    ELSE m

\* An import that always takes the multibyte form, with 8 length bytes.
vlpstr_importWide(m, zs) ==
    LET len == strlen(zs)
        m1 == [m EXCEPT ![FlagsAddr] = BitOr(8, 128) % 256]
        m2 == StoreLenBytes(m1, len, 0, 8)
    IN  Memcpy(m2, DataAddr(8), zs, Add(len, ToSize(1)))

vlpstr_import(m, zs) ==
    LET len == strlen(zs) IN
    IF Lt(len, ToSize(128))
    THEN Memcpy([m EXCEPT ![FlagsAddr] = ToByte(len)],
                DataAddr(0), zs, Add(len, ToSize(1)))
    ELSE LET nr_len_bytes == NrLenBytes(len)
             m1 == [m EXCEPT ![FlagsAddr] = BitOr(nr_len_bytes, 128) % 256]
             m2 == StoreLenBytes(m1, len, 0, nr_len_bytes)
         IN  Memcpy(m2, DataAddr(nr_len_bytes), zs, Add(len, ToSize(1)))

(***************************************************************************)
(* vlpstr_data                                                             *)
(***************************************************************************)
\* vlpstr_data masking the count with 0x07.
vlpstr_dataNarrow(m) ==
    IF m[FlagsAddr] < 128
    THEN DataAddr(0)
    ELSE DataAddr(BitAnd(m[FlagsAddr], 7))

vlpstr_data(m) ==
    IF m[FlagsAddr] < 128
    THEN DataAddr(0)
    ELSE DataAddr(BitAnd(m[FlagsAddr], 15))

(***************************************************************************)
(* vlpstr_len                                                              *)
(***************************************************************************)
\* What a shift of a 64-bit value by 64 bits or more (undefined in C) gives:
\* the count taken modulo 64, as x86-64 shifts do, or every bit shifted out.
ShiftUB == {"masked", "out"}

\* (size_t) byte << (i * 8)
ShlByte(byte, i, ub) ==
    IF i < 8 \/ ub = "masked"
    THEN [k \in 1..8 |-> IF k = (i % 8) + 1 THEN byte ELSE 0]
    ELSE ToSize(0)

\* a | b on size_t.
Or64(a, b) == [k \in 1..8 |-> BitOr(a[k], b[k])]

RECURSIVE LenLoop(_, _, _, _, _)
\* for (i = 0; i < nr_len_bytes; ++i) len |= (size_t) data[i] << (i * 8);
LenLoop(m, nr_len_bytes, i, len, ub) ==
    IF i < nr_len_bytes
    THEN LenLoop(m, nr_len_bytes, i + 1,
                 Or64(len, ShlByte(m[DataAddr(i)], i, ub)), ub)
    ELSE len

\* vlpstr_len of a decoder that takes only minimal encodings: a length field
\* whose top byte is zero gives 0.
vlpstr_lenNoOverlong(m, ub) ==
    IF m[FlagsAddr] < 128
    THEN ToSize(m[FlagsAddr])
    ELSE IF m[DataAddr(BitAnd(m[FlagsAddr], 15) - 1)] = 0
         THEN ToSize(0)
         ELSE LenLoop(m, BitAnd(m[FlagsAddr], 15), 0, ToSize(0), ub)

\* vlpstr_len of a decoder that validates the reserved bits: a flags byte
\* with one of bits 4-6 set gives 0.
vlpstr_lenReserved(m, ub) ==
    IF m[FlagsAddr] < 128
    THEN ToSize(m[FlagsAddr])
    ELSE IF BitAnd(m[FlagsAddr], 112) # 0
         THEN ToSize(0)
         ELSE LenLoop(m, BitAnd(m[FlagsAddr], 15), 0, ToSize(0), ub)

vlpstr_len(m, ub) ==
    IF m[FlagsAddr] < 128
    THEN ToSize(m[FlagsAddr])
    ELSE LenLoop(m, BitAnd(m[FlagsAddr], 15), 0, ToSize(0), ub)

(***************************************************************************)
(* The calls a program makes.                                              *)
(***************************************************************************)
NoRet == [fn |-> "none", val |-> ToSize(0)]

\* vlpstr_import(buf, zs), the buffer holding at least
\* vlpstr_rsize(strlen(zs)) bytes.
Import(zs) ==
    /\ nimp < MaxImports
    /\ mem' = vlpstr_import(mem, zs)
    /\ src' = zs
    /\ nimp' = nimp + 1
    /\ ret' = [fn |-> "vlpstr_import", val |-> ToSize(0)]
    /\ UNCHANGED arg

\* vlpstr_len(buf)
DoLen ==
    /\ \E ub \in ShiftUB :
          ret' = [fn |-> "vlpstr_len", val |-> vlpstr_len(mem, ub)]
    /\ UNCHANGED <<mem, src, arg, nimp>>

\* vlpstr_data(buf)
DoData ==
    /\ ret' = [fn |-> "vlpstr_data", val |-> vlpstr_data(mem)]
    /\ UNCHANGED <<mem, src, arg, nimp>>

\* vlpstr_rsize(arg)
DoRsize ==
    /\ ret' = [fn |-> "vlpstr_rsize", val |-> vlpstr_rsize(arg)]
    /\ UNCHANGED <<mem, src, arg, nimp>>

(***************************************************************************)
(* Spec: a program imports C strings into a buffer that held something     *)
(* else before, and reads the buffer back.                                 *)
(***************************************************************************)
\* A buffer nothing was stored in yet.
Fill(byte) == [a \in Addr |-> byte]

Init ==
    /\ mem = Fill(165)
    /\ src = NoSrc
    /\ arg = ToSize(0)
    /\ ret = NoRet
    /\ nimp = 0

Next ==
    \/ \E zs \in Sources : Import(zs)
    \/ DoLen
    \/ DoData

Spec == Init /\ [][Next]_vars

(***************************************************************************)
(* SpecRsize: vlpstr_rsize called with lengths over the whole of size_t.   *)
(***************************************************************************)
\* 2^64 - 1
SizeMax == [i \in 1..8 |-> 255]

RsizeLens ==
    {ToSize(n) : n \in 0..MaxDenseLen}
        \cup {Add(Sub(Pow256(k), ToSize(2)), ToSize(d)) : k \in 1..7, d \in 0..3}
        \cup {Sub(SizeMax, ToSize(d)) : d \in 0..12}
        \cup {[i \in 1..8 |-> IF i = 8 THEN 128 ELSE 0]}

InitRsize ==
    /\ mem = Fill(165)
    /\ src = NoSrc
    /\ arg \in RsizeLens
    /\ ret = NoRet
    /\ nimp = 0

NextRsize == DoRsize

SpecRsize == InitRsize /\ [][NextRsize]_vars

(***************************************************************************)
(* SpecDecode: the accessors called on buffers a caller laid out by hand,  *)
(* with every flags byte and with minimal and overlong length fields.      *)
(***************************************************************************)
\* flags, then the bytes of v in little-endian order in the length field
\* the flags declare, then payload bytes.
Construct(flags, v, pay) ==
    [a \in Addr |->
        IF a = FlagsAddr THEN flags
        ELSE IF flags >= 128 /\ Lt(a, DataAddr(flags % 16)) /\ Lt(a, DataAddr(8))
             THEN v[a[1]]
        ELSE pay]

DecodeVals ==
    {ToSize(0), ToSize(10), ToSize(127), ToSize(128), ToSize(255), ToSize(256),
     ToSize(65535), Pow256(4), Pow256(7), SizeMax, <<1, 2, 3, 4, 5, 6, 7, 8>>}

PayBytes == {0, 65}

InitDecode ==
    /\ arg \in DecodeVals
    /\ \E flags \in Byte, pay \in PayBytes : mem = Construct(flags, arg, pay)
    /\ src = NoSrc
    /\ ret = NoRet
    /\ nimp = 0

NextDecode ==
    \/ DoLen
    \/ DoData

SpecDecode == InitDecode /\ [][NextDecode]_vars

(***************************************************************************)
(* Properties.                                                             *)
(***************************************************************************)
\* The smallest K with 256^K > len: the index of the top nonzero byte.
MinLenBytes(len) ==
    CHOOSE K \in 0..8 :
        /\ \A i \in 1..8 : i > K => len[i] = 0
        /\ K > 0 => len[K] # 0

\* Whether the sum len + n needs more than 64 bits.
Overflows(len, n) == Lt(Add(len, ToSize(n)), len)

\* C2: vlpstr_rsize(len) is len + 2 for len < 128 and len + K + 2 otherwise,
\* K the smallest integer with 256^K > len (the sum taken in size_t); rsize(0)
\* = 2, rsize(6) = 8, rsize(127) = 129, rsize(128) = 131, rsize(255) = 258,
\* rsize(256) = 260.
RsizeFormula ==
    ret.fn = "vlpstr_rsize" =>
        /\ ret.val = IF Lt(arg, ToSize(128))
                     THEN Add(arg, ToSize(2))
                     ELSE Add(arg, ToSize(MinLenBytes(arg) + 2))
        /\ arg = ToSize(0) => ret.val = ToSize(2)
        /\ arg = ToSize(6) => ret.val = ToSize(8)
        /\ arg = ToSize(127) => ret.val = ToSize(129)
        /\ arg = ToSize(128) => ret.val = ToSize(131)
        /\ arg = ToSize(255) => ret.val = ToSize(258)
        /\ arg = ToSize(256) => ret.val = ToSize(260)

\* vlpstr_rsize was called with 65536, the first length of three length bytes.
RsizeFormulaWitness ==
    /\ ret.fn = "vlpstr_rsize"
    /\ arg = ToSize(65536)
    /\ ret.val = ToSize(65541)

\* C8: for every len in 0..2^64-1 the size_t result of vlpstr_rsize is the
\* mathematical value len + K + 2, without wrap-around, and so is strictly
\* greater than len.
RsizeNoWrap ==
    ret.fn = "vlpstr_rsize" =>
        /\ ~Overflows(arg, IF Lt(arg, ToSize(128)) THEN 2 ELSE MinLenBytes(arg) + 2)
        /\ Lt(arg, ret.val)

\* The offsets a with data <= a < data + n.
Span(data, n) == {a \in Addr : ~Lt(a, data) /\ Lt(a, Add(data, n))}

\* C1: after vlpstr_import(dest, s), vlpstr_len(dest) is the length of s and
\* the bytes from vlpstr_data(dest) on are the bytes of s, in order, for the
\* direct form and for every number of length bytes 1..8.
RoundTrip ==
    src # NoSrc =>
        /\ \A ub \in ShiftUB : vlpstr_len(mem, ub) = strlen(src)
        /\ ret.fn = "vlpstr_len" => ret.val = strlen(src)
        /\ LET data == vlpstr_data(mem) IN
           \A a \in Span(data, strlen(src)) : mem[a] = ZsAt(src, Sub(a, data))

\* A string of 2^56 bytes (8 length bytes) was imported over an earlier
\* string and its length read back.
RoundTripWitness ==
    /\ src # NoSrc
    /\ nimp = 2
    /\ strlen(src) = Pow256(7)
    /\ ret = [fn |-> "vlpstr_len", val |-> Pow256(7)]
    /\ mem[Add(Pow256(7), ToSize(8))] = ZsAt(src, Sub(Pow256(7), ToSize(1)))

\* C3: vlpstr_import writes the minimal prefix: flags = len and no length
\* bytes for len < 128; otherwise flags = 0x80 | K, K the smallest integer
\* with 256^K > len, the K bytes after flags hold len in little-endian order,
\* the last of them is nonzero and bits 4-6 of flags are zero.
MinimalPrefix ==
    src # NoSrc =>
        LET len == strlen(src)
            K == MinLenBytes(len)
        IN  IF Lt(len, ToSize(128))
            THEN /\ mem[FlagsAddr] = len[1]
                 /\ mem[ToSize(1)] = ZsAt(src, ToSize(0))
                 /\ len = ToSize(127) => mem[FlagsAddr] = 127
            ELSE /\ mem[FlagsAddr] = 128 + K
                 /\ \A i \in 1..K : mem[ToSize(i)] = len[i]
                 /\ mem[ToSize(K)] # 0
                 /\ (mem[FlagsAddr] \div 16) % 8 = 0
                 /\ mem[ToSize(K + 1)] = ZsAt(src, ToSize(0))
                 /\ len = ToSize(128) =>
                       mem[FlagsAddr] = 129 /\ mem[ToSize(1)] = 128

\* A string of 128 bytes was imported: flags 0x81, one length byte 128.
MinimalPrefixWitness ==
    /\ src # NoSrc
    /\ strlen(src) = ToSize(128)
    /\ mem[FlagsAddr] = 129
    /\ mem[ToSize(1)] = 128

\* C6: vlpstr_import of a source of length len leaves every byte at offset
\* >= vlpstr_rsize(len) as it was, and stores the terminator at offset
\* vlpstr_rsize(len) - 1, the highest offset it writes.
ImportFrame ==
    [][ret'.fn = "vlpstr_import" /\ nimp' # nimp =>
          LET size == vlpstr_rsize(strlen(src')) IN
          /\ \A a \in Addr : mem'[a] # mem[a] => Lt(a, size)
          /\ Sub(size, ToSize(1)) = Add(vlpstr_data(mem'), strlen(src'))
          /\ mem'[Sub(size, ToSize(1))] = 0]_vars

\* A short string was imported over a long one, whose bytes past the short
\* string's terminator are still in the buffer.
ImportFrameWitness ==
    /\ nimp = 2
    /\ ret.fn = "vlpstr_import"
    /\ strlen(src) = ToSize(1)
    /\ mem[ToSize(2)] = 0
    /\ mem[ToSize(3)] \notin {0, 165}
    /\ mem[ToSize(259)] = 0

\* C7: after vlpstr_import(dest, s), s of length L, the byte at vlpstr_data +
\* vlpstr_len is 0 and the L bytes before it are the nonzero bytes of s; for
\* the empty source the buffer starts with flags 0 and one 0 byte.
Terminated ==
    src # NoSrc =>
        \A ub \in ShiftUB :
            LET data == vlpstr_data(mem)
                len == vlpstr_len(mem, ub)
            IN  /\ mem[Add(data, len)] = 0
                /\ len = strlen(src)
                /\ \A a \in Span(data, len) :
                      mem[a] # 0 /\ mem[a] = ZsAt(src, Sub(a, data))
                /\ strlen(src) = ToSize(0) =>
                      mem[FlagsAddr] = 0 /\ mem[ToSize(1)] = 0

\* The empty string was imported into a buffer of nonzero bytes.
TerminatedWitness ==
    /\ src # NoSrc
    /\ nimp = 1
    /\ strlen(src) = ToSize(0)
    /\ mem[FlagsAddr] = 0
    /\ mem[ToSize(1)] = 0
    /\ mem[ToSize(2)] = 165

\* C10: whatever the destination held before, after vlpstr_import of s the
\* first vlpstr_rsize(len) bytes are the ones the import of s leaves in a
\* buffer with other prior contents (zero-filled, or filled with 0xFF).
ImportDetermined ==
    src # NoSrc =>
        \A byte \in {0, 255} :
            LET size == vlpstr_rsize(strlen(src))
                other == vlpstr_import(Fill(byte), src)
            IN  \A a \in Addr : Lt(a, size) => mem[a] = other[a]

\* A string with zero length bytes (65536 = 00 00 01) was imported over the
\* encoding of a longer string.
ImportDeterminedWitness ==
    /\ nimp = 2
    /\ strlen(src) = ToSize(65536)
    /\ mem[Add(Pow256(3), ToSize(5))] = 0
    /\ mem[ToSize(1)] = 0

\* Whether v is below 256^N.
Fits(v, N) == \A i \in 1..8 : i > N => v[i] = 0

\* C4: a buffer whose flags byte is 0x80 | N, N in 1..8, and whose next N
\* bytes hold v < 256^N in little-endian order makes vlpstr_len return v,
\* as the minimal encoding of v does; flags 0x87 with length bytes
\* [10,0,0,0,0,0,0] gives 10, like flags 0x0A.
OverlongAccepted ==
    \A N \in 1..8 :
        (/\ ret.fn = "vlpstr_len"
         /\ mem[FlagsAddr] = 128 + N
         /\ Fits(arg, N)
         /\ \A i \in 1..N : mem[ToSize(i)] = arg[i])
        => /\ ret.val = arg
           /\ Lt(arg, ToSize(128)) =>
                 \A ub \in ShiftUB :
                     ret.val = vlpstr_len([mem EXCEPT ![FlagsAddr] = arg[1]], ub)
           /\ (~Lt(arg, ToSize(128)) /\ arg[8] < 128) =>
                 \A ub \in ShiftUB :
                     ret.val = vlpstr_len(
                         vlpstr_import(mem, [len |-> arg, seed |-> 7]), ub)

\* vlpstr_len was called on flags 0x87, length bytes [10,0,0,0,0,0,0], with
\* nonzero payload bytes after them, and returned 10.
OverlongAcceptedWitness ==
    /\ ret = [fn |-> "vlpstr_len", val |-> ToSize(10)]
    /\ arg = ToSize(10)
    /\ mem[FlagsAddr] = 135
    /\ \A i \in 2..7 : mem[ToSize(i)] = 0
    /\ mem[ToSize(8)] = 65

\* C5: vlpstr_data returns offset 1 when bit 7 of flags is clear and offset
\* 1 + (flags & 0x0F) when it is set, for every flags byte, whatever the
\* bytes after flags are.
DataFromFlags ==
    LET flags == mem[FlagsAddr]
        off == IF flags \div 128 = 0 THEN 1 ELSE 1 + (flags % 16)
    IN  /\ ret.fn = "vlpstr_data" => ret.val = ToSize(off)
        /\ \A byte \in {0, 255} :
              vlpstr_data([a \in Addr |-> IF a = FlagsAddr THEN flags ELSE byte])
                  = ToSize(off)

\* vlpstr_data was called on flags 0xF8 (8 length bytes, reserved bits set)
\* and returned offset 9.
DataFromFlagsWitness ==
    /\ ret = [fn |-> "vlpstr_data", val |-> ToSize(9)]
    /\ mem[FlagsAddr] = 248

\* The buffer m with bits 4-6 of a multibyte flags byte cleared.
ClearReserved(m) ==
    [m EXCEPT ![FlagsAddr] = 128 + (m[FlagsAddr] % 16)]

\* C9: for a multibyte flags byte with N in 1..8, vlpstr_len and vlpstr_data
\* give the same results whatever bits 4-6 of flags are; with bit 7 clear,
\* vlpstr_len returns the whole flags byte.
ReservedIgnored ==
    LET flags == mem[FlagsAddr] IN
    /\ (flags >= 128 /\ flags % 16 \in 1..8) =>
          /\ \A ub \in ShiftUB :
                vlpstr_len(mem, ub) = vlpstr_len(ClearReserved(mem), ub)
          /\ vlpstr_data(mem) = vlpstr_data(ClearReserved(mem))
          /\ ret.fn = "vlpstr_len" =>
                \A ub \in ShiftUB : ret.val = vlpstr_len(ClearReserved(mem), ub)
          /\ ret.fn = "vlpstr_data" => ret.val = vlpstr_data(ClearReserved(mem))
    /\ flags < 128 =>
          /\ \A ub \in ShiftUB : vlpstr_len(mem, ub) = ToSize(flags)
          /\ ret.fn = "vlpstr_len" => ret.val = ToSize(flags)

\* vlpstr_len was called on flags 0xF2 (all reserved bits set, 2 length
\* bytes) over the length bytes of 65535, and returned 65535.
ReservedIgnoredWitness ==
    /\ ret = [fn |-> "vlpstr_len", val |-> ToSize(65535)]
    /\ mem[FlagsAddr] = 242
    /\ arg = ToSize(65535)

====
